---- MODULE Spec2Model ----
(***************************************************************************)
(* A model of the hotkey-listener crate: the builder and the handle        *)
(* (listener.rs), the raw-device worker (linux.rs) and the hook worker     *)
(* (macos.rs), with the keyboards, the OS and the consumer as environment. *)
(***************************************************************************)
EXTENDS Integers, Sequences, FiniteSets, TLC

VARIABLES
    backend,        \* "linux" | "macos": the cfg(target_os) the crate is built for
    hotkeys,        \* HotkeyListenerBuilder.hotkeys, in registration order
    setup,          \* what the environment of this run can do (fixed at Init)
    phase,          \* "builder" | "built" | "started" | "failed"
    running,        \* the shared Arc<AtomicBool>
    handle,         \* "none" | "live" | "dropped": the HotkeyListenerHandle
    nstops,         \* number of stop() calls made on the handle
    chan,           \* the mpsc channel: events sent and not yet received
    wpc,            \* the worker thread's position
    current_mods,   \* the worker's current_mods
    keyboards,      \* linux: the worker's Vec<Device> (the listener's before start)
    new_keyboards,  \* linux: the Vec<Device> a rescan has opened
    devIdx,         \* linux: position of `for device in keyboards.iter_mut()`
    batch,          \* linux: the events fetch_events returned, not yet handled
    any_error,      \* linux: any_error of the current iteration
    had_error,      \* linux: had_error
    elapsed,        \* linux: last_rescan.elapsed(), saturated at RESCAN_INTERVAL
    present,        \* the keyboards plugged in (nodes under /dev/input)
    gen,            \* number of device sets installed by a rescan
    nkeys,          \* number of key transitions the keyboards have produced
    nfaults,        \* number of faults the environment has injected
    last,           \* history: the transition handled last and what it sent
    senders,        \* number of live Senders of the channel
    faulted_for,    \* history: time since had_error became true, saturated
    hist,           \* history of the keys and of what the raw-device worker did
    scen            \* history: progress of the Shift+F8 / F8 scenario

vars == <<backend, hotkeys, setup, phase, running, handle, nstops, chan, wpc,
          current_mods, keyboards, new_keyboards, devIdx, batch, any_error,
          had_error, elapsed, present, gen, nkeys, nfaults, last, scen, senders,
          faulted_for, hist>>

(***************************************************************************)
(* Bounds of the model and constants of the program.                        *)
(***************************************************************************)
MaxTransitions == 4
MaxPending == 2
MaxFaults == 1
MaxStops == 2
RESCAN_INTERVAL == 3

(***************************************************************************)
(* key.rs, hotkey.rs, event.rs: the values.                                 *)
(***************************************************************************)
Modifiers(s, c, a) == [shift |-> s, ctrl |-> c, alt |-> a]

ModifiersDefault == Modifiers(FALSE, FALSE, FALSE)

AllModifiers == [shift : BOOLEAN, ctrl : BOOLEAN, alt : BOOLEAN]

HotkeyNew(key) == [key |-> key, modifiers |-> ModifiersDefault]

with_modifiers(key, m) == [key |-> key, modifiers |-> m]

with_shift(h) ==
    [key |-> h.key,
     modifiers |-> Modifiers(TRUE, h.modifiers.ctrl, h.modifiers.alt)]

Pressed(i) == [kind |-> "Pressed", index |-> i]

Released(i) == [kind |-> "Released", index |-> i]

\* The evdev key of a platform key.
to_evdev_key(key) ==
    CASE key = "F8" -> "KEY_F8"
      [] key = "F9" -> "KEY_F9"
      [] key = "F10" -> "KEY_F10"

\* The rdev key of a platform key.
to_rdev_key(key) ==
    CASE key = "F8" -> "rdev::F8"
      [] key = "F9" -> "rdev::F9"
      [] key = "F10" -> "rdev::F10"

BackendKey(b, key) == IF b = "linux" THEN to_evdev_key(key) ELSE to_rdev_key(key)

\* HotkeyListenerBuilder::new and add_hotkey.
BuilderNew == <<>>

add_hotkey(hs, h) == Append(hs, h)

\* enumerate(): the index of the entry at (1-based) position pos.
EnumerateFromOne(pos) == pos

EnumerateIndex(pos) == pos - 1

\* evdev_hotkeys / rdev_hotkeys: the table the worker matches against.
BackendHotkeys(b, hs) ==
    [i \in 1..Len(hs) |-> [key |-> BackendKey(b, hs[i].key),
                           modifiers |-> hs[i].modifiers]]

(***************************************************************************)
(* linux.rs: the raw-device worker's handling of one key event.             *)
(***************************************************************************)
PressedOnAnyNonZero(value) == value # 0

\* let pressed = event.value() == 1
is_pressed(value) == value = 1

\* let released = event.value() == 0
is_released(value) == value = 0

\* current_mods.f = pressed || (!released && current_mods.f);
\* if released { current_mods.f = false; }
linux_flag(cur, pressed, released) ==
    LET assigned == pressed \/ (~released /\ cur)
    IN  IF released THEN FALSE ELSE assigned

LinuxTrackOtherKeyResets(m, key, pressed, released) ==
    CASE key \in {"KEY_LEFTSHIFT", "KEY_RIGHTSHIFT"} ->
            [m EXCEPT !.shift = linux_flag(@, pressed, released)]
      [] key \in {"KEY_LEFTCTRL", "KEY_RIGHTCTRL"} ->
            [m EXCEPT !.ctrl = linux_flag(@, pressed, released)]
      [] key \in {"KEY_LEFTALT", "KEY_RIGHTALT"} ->
            [m EXCEPT !.alt = linux_flag(@, pressed, released)]
      [] OTHER -> IF pressed \/ released THEN ModifiersDefault ELSE m

\* match key { KEY_LEFTSHIFT | KEY_RIGHTSHIFT => ..., ..., _ => {} }
LinuxTrackPerDevice(m, key, pressed, released) ==
    LET d == keyboards[devIdx].dev
        own(f) == ~released \/ hist.mod_dev[f] = d
    IN  CASE key \in {"KEY_LEFTSHIFT", "KEY_RIGHTSHIFT"} /\ own("shift") ->
                [m EXCEPT !.shift = linux_flag(@, pressed, released)]
          [] key \in {"KEY_LEFTCTRL", "KEY_RIGHTCTRL"} /\ own("ctrl") ->
                [m EXCEPT !.ctrl = linux_flag(@, pressed, released)]
          [] key \in {"KEY_LEFTALT", "KEY_RIGHTALT"} /\ own("alt") ->
                [m EXCEPT !.alt = linux_flag(@, pressed, released)]
          [] OTHER -> m

linux_track(m, key, pressed, released) ==
    CASE key \in {"KEY_LEFTSHIFT", "KEY_RIGHTSHIFT"} ->
            [m EXCEPT !.shift = linux_flag(@, pressed, released)]
      [] key \in {"KEY_LEFTCTRL", "KEY_RIGHTCTRL"} ->
            [m EXCEPT !.ctrl = linux_flag(@, pressed, released)]
      [] key \in {"KEY_LEFTALT", "KEY_RIGHTALT"} ->
            [m EXCEPT !.alt = linux_flag(@, pressed, released)]
      [] OTHER -> m

ModsSuperset(cur, hm) ==
    /\ hm.shift => cur.shift
    /\ hm.ctrl => cur.ctrl
    /\ hm.alt => cur.alt

\* let mods_match = current_mods.shift == hotkey_mods.shift && ... ctrl ... alt
mods_match(cur, hm) ==
    /\ cur.shift = hm.shift
    /\ cur.ctrl = hm.ctrl
    /\ cur.alt = hm.alt

Positions(table) == [i \in 1..Len(table) |-> i]

LinuxEmitReleaseUnchecked(table, key, pressed, released, cur) ==
    LET hit(i) == /\ table[i].key = key
                  /\ (pressed /\ mods_match(cur, table[i].modifiers)) \/ released
        pos == SelectSeq(Positions(table), hit)
    IN  [j \in 1..Len(pos) |->
            IF pressed THEN Pressed(EnumerateIndex(pos[j]))
                       ELSE Released(EnumerateIndex(pos[j]))]

LinuxEmitFirstOnly(table, key, pressed, released, cur) ==
    LET hit(i) == /\ table[i].key = key
                  /\ mods_match(cur, table[i].modifiers)
                  /\ (pressed \/ released)
        pos == SelectSeq(Positions(table), hit)
    IN  IF pos = <<>>
        THEN <<>>
        ELSE << IF pressed THEN Pressed(EnumerateIndex(pos[1]))
                           ELSE Released(EnumerateIndex(pos[1])) >>

\* for (idx, (hotkey_key, hotkey_mods)) in evdev_hotkeys.iter().enumerate():
\* the events sent for one key event, in the order they are sent.
linux_emit(table, key, pressed, released, cur) ==
    LET hit(i) == /\ table[i].key = key
                  /\ mods_match(cur, table[i].modifiers)
                  /\ (pressed \/ released)
        pos == SelectSeq(Positions(table), hit)
    IN  [j \in 1..Len(pos) |->
            IF pressed THEN Pressed(EnumerateIndex(pos[j]))
                       ELSE Released(EnumerateIndex(pos[j]))]

(***************************************************************************)
(* macos.rs: the hook callback's handling of one key event.                 *)
(***************************************************************************)
\* EventType::KeyPress(key): match key { ShiftLeft | ShiftRight => ..., Alt => ... }
macos_track_press(m, key) ==
    CASE key \in {"rdev::ShiftLeft", "rdev::ShiftRight"} -> [m EXCEPT !.shift = TRUE]
      [] key \in {"rdev::ControlLeft", "rdev::ControlRight"} -> [m EXCEPT !.ctrl = TRUE]
      [] key = "rdev::Alt" -> [m EXCEPT !.alt = TRUE]
      [] OTHER -> m

\* EventType::KeyRelease(key): the same keys, set to false
macos_track_release(m, key) ==
    CASE key \in {"rdev::ShiftLeft", "rdev::ShiftRight"} -> [m EXCEPT !.shift = FALSE]
      [] key \in {"rdev::ControlLeft", "rdev::ControlRight"} -> [m EXCEPT !.ctrl = FALSE]
      [] key = "rdev::Alt" -> [m EXCEPT !.alt = FALSE]
      [] OTHER -> m

\* the press loop: Pressed(idx) for every entry with the key and matching modifiers
macos_emit_press(table, key, cur) ==
    LET hit(i) == table[i].key = key /\ mods_match(cur, table[i].modifiers)
        pos == SelectSeq(Positions(table), hit)
    IN  [j \in 1..Len(pos) |-> Pressed(EnumerateIndex(pos[j]))]

MacosEmitReleaseChecked(table, key, cur) ==
    LET hit(i) == table[i].key = key /\ mods_match(cur, table[i].modifiers)
        pos == SelectSeq(Positions(table), hit)
    IN  [j \in 1..Len(pos) |-> Released(EnumerateIndex(pos[j]))]

\* the release loop: Released(idx) for every entry with the key, modifiers unread
macos_emit_release(table, key, cur) ==
    LET hit(i) == table[i].key = key
        pos == SelectSeq(Positions(table), hit)
    IN  [j \in 1..Len(pos) |-> Released(EnumerateIndex(pos[j]))]

(***************************************************************************)
(* The runs the model explores: a backend, a registered table and the keys  *)
(* the keyboards can produce.                                               *)
(***************************************************************************)
TableShiftF8 ==
    add_hotkey(add_hotkey(BuilderNew, with_shift(HotkeyNew("F8"))), HotkeyNew("F8"))

TableABC ==
    add_hotkey(add_hotkey(add_hotkey(BuilderNew, HotkeyNew("F8")),
                          HotkeyNew("F9")), HotkeyNew("F10"))

TableCtrlAlt ==
    add_hotkey(add_hotkey(BuilderNew,
        with_modifiers("F9", Modifiers(FALSE, TRUE, TRUE))),
        with_shift(with_modifiers("F9", Modifiers(FALSE, TRUE, TRUE))))

\* evdev's event.value(): 0 = up, 1 = down, 2 = autorepeat
KeyValues == {0, 1, 2}

\* rdev's EventType: KeyRelease (0) and KeyPress (1)
HookValues == {0, 1}

TableF8 == add_hotkey(add_hotkey(BuilderNew, HotkeyNew("F8")), with_shift(HotkeyNew("F8")))

\* F8 registered twice, with Shift+F8 between
TableDup ==
    add_hotkey(add_hotkey(add_hotkey(BuilderNew, HotkeyNew("F8")),
                          with_shift(HotkeyNew("F8"))), HotkeyNew("F8"))

\* What a run's environment can do: the key codes and values its keyboards
\* produce, the keyboards there are, whether keyboards disconnect and system calls
\* fail, whether the program stops or drops the handle, and how many key
\* transitions happen.
Env(keys, values, devices, faulty, stops, transitions) ==
    [keys |-> keys, values |-> values, devices |-> devices, faulty |-> faulty,
     stops |-> stops, transitions |-> transitions]

Setups ==
    { [backend |-> "linux", hotkeys |-> TableShiftF8,
       env |-> Env({"KEY_LEFTSHIFT", "KEY_F8"}, KeyValues, {1}, FALSE, FALSE,
                   MaxTransitions)],
      [backend |-> "linux", hotkeys |-> TableCtrlAlt,
       env |-> Env({"KEY_RIGHTSHIFT", "KEY_LEFTCTRL", "KEY_RIGHTALT", "KEY_F9"},
                   {0, 1}, {1}, FALSE, FALSE, MaxTransitions)],
      [backend |-> "linux", hotkeys |-> TableABC,
       env |-> Env({"KEY_F9", "KEY_F10"}, {0, 1}, {1, 2}, FALSE, FALSE,
                   MaxTransitions - 1)],
      [backend |-> "linux", hotkeys |-> TableF8,
       env |-> Env({"KEY_LEFTSHIFT", "KEY_F8"}, KeyValues, {1, 2}, TRUE, FALSE,
                   MaxTransitions - 1)],
      [backend |-> "linux", hotkeys |-> TableABC,
       env |-> Env({"KEY_F9"}, {0, 1}, {1}, TRUE, TRUE, MaxTransitions - 1)],
      [backend |-> "linux", hotkeys |-> TableDup,
       env |-> Env({"KEY_LEFTSHIFT", "KEY_F8"}, {0, 1}, {1}, FALSE, FALSE,
                   MaxTransitions - 1)],
      [backend |-> "macos", hotkeys |-> TableDup,
       env |-> Env({"rdev::ShiftLeft", "rdev::F8"}, HookValues, {}, FALSE, FALSE,
                   MaxTransitions - 1)],
      [backend |-> "macos", hotkeys |-> TableShiftF8,
       env |-> Env({"rdev::ShiftLeft", "rdev::F8"}, HookValues, {}, TRUE, TRUE,
                   MaxTransitions)],
      [backend |-> "macos", hotkeys |-> TableABC,
       env |-> Env({"rdev::F8", "rdev::F9", "rdev::F10"}, HookValues, {}, TRUE, TRUE,
                   MaxTransitions - 1)],
      [backend |-> "macos", hotkeys |-> TableCtrlAlt,
       env |-> Env({"rdev::ShiftRight", "rdev::ControlLeft", "rdev::Alt",
                    "rdev::AltGr", "rdev::F9"},
                   HookValues, {}, FALSE, FALSE, MaxTransitions)] }

NoLast == [key |-> "none", value |-> -1, mods |-> ModifiersDefault, sent |-> <<>>]

ScenarioOff == [pos |-> -1, sent |-> <<>>]

\* shift-down, F8-down, F8-up, shift-up
Scenario ==
    << [key |-> "KEY_LEFTSHIFT", value |-> 1], [key |-> "KEY_F8", value |-> 1],
       [key |-> "KEY_F8", value |-> 0], [key |-> "KEY_LEFTSHIFT", value |-> 0] >>

ScenarioStep(sc, key, value, sent) ==
    IF /\ sc.pos >= 0
       /\ sc.pos < Len(Scenario)
       /\ Scenario[sc.pos + 1] = [key |-> key, value |-> value]
    THEN [pos |-> sc.pos + 1, sent |-> sc.sent \o sent]
    ELSE ScenarioOff

\* (history) down: the keys (keyboard, key code) that are physically down;
\* strict: every key has alternated down/up so far (down and open are kept only
\* while that is so); open: the indices whose last event sent is Pressed;
\* mod_dev: the device whose key-down made each modifier active (0: not active);
\* drained: the transitions drain_events has discarded.
HistNone ==
    [down |-> {}, strict |-> TRUE, open |-> {},
     mod_dev |-> [shift |-> 0, ctrl |-> 0, alt |-> 0], drained |-> {}]

\* (history) key of device d makes a transition
HistTransition(h, d, key, value) ==
    LET k == <<d, key>>
        strict == h.strict /\ (IF value = 1 THEN k \notin h.down ELSE k \in h.down)
    IN  [h EXCEPT !.strict = strict,
                  !.down = IF ~strict THEN {}
                           ELSE IF value = 1 THEN h.down \cup {k}
                           ELSE IF value = 0 THEN h.down \ {k} ELSE h.down,
                  !.open = IF strict THEN h.open ELSE {}]

HistModDev(cur, f, keys, d, key, value) ==
    IF key \in keys
    THEN IF value = 1 THEN d ELSE IF value = 0 THEN 0 ELSE cur[f]
    ELSE cur[f]

\* (history) the worker has handled an event of device d and sent sent
HistHandle(h, d, key, value, sent) ==
    LET idx == { sent[j].index : j \in 1..Len(sent) }
    IN  [h EXCEPT
            !.open = IF ~h.strict THEN {}
                     ELSE IF value = 1 THEN h.open \cup idx
                     ELSE IF value = 0 THEN h.open \ idx ELSE h.open,
            !.mod_dev =
                [shift |-> HistModDev(h.mod_dev, "shift",
                                      {"KEY_LEFTSHIFT", "KEY_RIGHTSHIFT"}, d, key, value),
                 ctrl |-> HistModDev(h.mod_dev, "ctrl",
                                     {"KEY_LEFTCTRL", "KEY_RIGHTCTRL"}, d, key, value),
                 alt |-> HistModDev(h.mod_dev, "alt",
                                    {"KEY_LEFTALT", "KEY_RIGHTALT"}, d, key, value)]]

Init ==
    /\ \E s \in Setups :
        /\ backend = s.backend
        /\ hotkeys = s.hotkeys
        /\ setup = s.env
        /\ present = s.env.devices
    /\ phase = "builder"
    /\ running = FALSE
    /\ handle = "none"
    /\ nstops = 0
    /\ chan = <<>>
    /\ wpc = "none"
    /\ current_mods = ModifiersDefault
    /\ keyboards = <<>>
    /\ new_keyboards = <<>>
    /\ devIdx = 1
    /\ batch = <<>>
    /\ any_error = FALSE
    /\ had_error = FALSE
    /\ elapsed = 0
    /\ gen = 0
    /\ nkeys = 0
    /\ nfaults = 0
    /\ last = NoLast
    /\ scen = ScenarioOff
    /\ senders = 0
    /\ faulted_for = 0
    /\ hist = HistNone

(***************************************************************************)
(* Devices (linux.rs): an open handle on a keyboard and its pending events. *)
(***************************************************************************)
Open(d, g) == [dev |-> d, gen |-> g, ok |-> TRUE, q |-> <<>>]

\* the orders read_dir can list a set of device nodes in
Orders(S) ==
    { o \in [1..Cardinality(S) -> S] : \A i, j \in 1..Cardinality(S) : o[i] = o[j] => i = j }

\* find_keyboards: Err when no keyboard is found, else the opened devices
find_keyboards_ok(S) == S # {}

OpenAll(o, g) == [i \in 1..Len(o) |-> Open(o[i], g)]

DrainSkipped(kbs) == kbs

\* drain_events: fetch from every device until nothing is left
drain_events(kbs) == [i \in 1..Len(kbs) |-> [kbs[i] EXCEPT !.q = <<>>]]

\* the kernel queues a key event on every open handle of the keyboard
Deliver(kbs, d, e) ==
    [i \in 1..Len(kbs) |->
        IF kbs[i].dev = d /\ kbs[i].ok THEN [kbs[i] EXCEPT !.q = Append(@, e)]
                                       ELSE kbs[i]]

\* a keyboard that goes away: reads of its handles fail from then on (ENODEV)
Break(kbs, d) ==
    [i \in 1..Len(kbs) |->
        IF kbs[i].dev = d THEN [kbs[i] EXCEPT !.ok = FALSE, !.q = <<>>] ELSE kbs[i]]

RECURSIVE Pending(_)
\* the number of events pending on the handles kbs
Pending(kbs) == IF kbs = <<>> THEN 0 ELSE Len(Head(kbs).q) + Pending(Tail(kbs))

HasOpen(kbs, d) == \E i \in 1..Len(kbs) : kbs[i].dev = d /\ kbs[i].ok

\* the transitions (by number) pending unread on the handles kbs
Unread(kbs) ==
    UNION { { kbs[i].q[k].seq : k \in 1..Len(kbs[i].q) } : i \in 1..Len(kbs) }

\* (history) What is known of a key transition: its number seq among all
\* transitions, its keyboard dev, and unread, the earlier transitions that were
\* pending unread on a device when it happened.
Transition(seq, dev, unread) == [seq |-> seq, dev |-> dev, unread |-> unread]

\* An entry of the channel: the event and (history) the transition that caused it.
Entry(event, t) ==
    [event |-> event, seq |-> t.seq, dev |-> t.dev, unread |-> t.unread]

SendFront(c, events, t) ==
    IF handle = "dropped"
    THEN c
    ELSE [i \in 1..Len(events) |-> Entry(events[i], t)] \o c

\* tx.send(event) for each of events: queued unless the receiver is gone
Send(c, events, t) ==
    IF handle = "dropped"
    THEN c
    ELSE c \o [i \in 1..Len(events) |-> Entry(events[i], t)]

\* the events in the channel
Events(c) == [i \in 1..Len(c) |-> c[i].event]

(***************************************************************************)
(* listener.rs: build, start and the handle.                                *)
(***************************************************************************)
\* HotkeyListenerBuilder::build
Build ==
    /\ phase = "builder"
    /\ IF backend = "linux"
       THEN IF find_keyboards_ok(present)
            THEN \E o \in Orders(present) :
                    /\ keyboards' = OpenAll(o, 0)
                    /\ phase' = "built"
            ELSE /\ phase' = "failed"
                 /\ UNCHANGED keyboards
       ELSE /\ phase' = "built"
            /\ UNCHANGED keyboards
    /\ UNCHANGED <<backend, hotkeys, setup, hist, senders, faulted_for,
                   running, handle, nstops, chan, wpc,
                   current_mods, new_keyboards, devIdx, batch, any_error, had_error,
                   elapsed, present, gen, nkeys, nfaults, last, scen>>

\* HotkeyListener::start: the flag is created true, the backend's start spawns the
\* worker; on linux set_nonblocking comes first and its error is returned
Start(nonblocking_ok) ==
    /\ phase = "built"
    /\ IF backend = "linux" /\ ~nonblocking_ok
       THEN /\ setup.faulty
            /\ nfaults < MaxFaults
            /\ nfaults' = nfaults + 1
            /\ phase' = "failed"
            /\ keyboards' = <<>>
            /\ UNCHANGED <<running, handle, wpc, scen, senders>>
       ELSE /\ phase' = "started"
            /\ running' = TRUE
            /\ handle' = "live"
            /\ wpc' = IF backend = "linux" THEN "head" ELSE "spawned"
            /\ scen' = IF backend = "linux" /\ hotkeys = TableShiftF8
                       THEN [pos |-> 0, sent |-> <<>>] ELSE ScenarioOff
            /\ senders' = 1
            /\ UNCHANGED <<nfaults, keyboards>>
    /\ UNCHANGED <<backend, hotkeys, setup, hist, faulted_for, nstops, chan, current_mods,
                   new_keyboards, devIdx, batch, any_error, had_error, elapsed,
                   present, gen, nkeys, last>>

StopToggles(r) == ~r

\* self.running.store(false, Ordering::SeqCst)
stop_store(r) == FALSE

\* HotkeyListenerHandle::is_running
is_running == running

\* HotkeyListenerHandle::stop
Stop ==
    /\ handle = "live"
    /\ setup.stops
    /\ nstops < MaxStops
    /\ running' = stop_store(running)
    /\ nstops' = nstops + 1
    /\ UNCHANGED <<backend, hotkeys, setup, hist, senders, faulted_for,
                   phase, handle, chan, wpc, current_mods,
                   keyboards, new_keyboards, devIdx, batch, any_error, had_error,
                   elapsed, present, gen, nkeys, nfaults, last, scen>>

\* Drop for HotkeyListenerHandle: the flag is cleared, the receiver goes away
Drop ==
    /\ handle = "live"
    /\ setup.stops
    /\ running' = stop_store(running)
    /\ handle' = "dropped"
    /\ chan' = <<>>
    /\ UNCHANGED <<backend, hotkeys, setup, hist, senders, faulted_for,
                   phase, nstops, wpc, current_mods,
                   keyboards, new_keyboards, devIdx, batch, any_error, had_error,
                   elapsed, present, gen, nkeys, nfaults, last, scen>>

TryRecvDisconnectedFirst(c, n) ==
    IF n = 0 THEN "Disconnected" ELSE IF c = <<>> THEN "Empty" ELSE "Ok"

\* try_recv on a channel holding c with n live Senders: Ok(first event),
\* Err(Empty) or Err(Disconnected)
try_recv(c, n) ==
    IF c # <<>> THEN "Ok" ELSE IF n = 0 THEN "Disconnected" ELSE "Empty"

\* recv_timeout: Ok(first event), Err(Timeout) or Err(Disconnected)
recv_timeout(c, n) ==
    IF c # <<>> THEN "Ok" ELSE IF n = 0 THEN "Disconnected" ELSE "Timeout"

\* recv / recv_timeout / try_recv returning Ok(event)
Recv ==
    /\ handle = "live"
    /\ try_recv(chan, senders) = "Ok"
    /\ chan' = Tail(chan)
    /\ UNCHANGED <<backend, hotkeys, setup, hist, senders, faulted_for,
                   phase, running, handle, nstops, wpc,
                   current_mods, keyboards, new_keyboards, devIdx, batch, any_error,
                   had_error, elapsed, present, gen, nkeys, nfaults, last, scen>>

(***************************************************************************)
(* linux.rs: the worker thread of start_keyboard_listener.                  *)
(***************************************************************************)
LoopForever(r) == TRUE

LoopUntilFault(r) == r /\ ~had_error

\* while running.load(Ordering::Relaxed)
loop_cond(r) == r

RescanKeepsMods(m) == m

\* current_mods = Modifiers::default() of a successful rescan
rescan_mods(m) == ModifiersDefault

LastRescanKept(el) == el

\* last_rescan = Instant::now(): nothing has elapsed since
last_rescan_now(el) == 0

RescanOnError(err, el) == err

\* had_error && last_rescan.elapsed() >= RESCAN_INTERVAL
rescan_due(err, el) == err /\ el >= RESCAN_INTERVAL

\* any_error = true in the arm of a read fault
record_any_error(any, fault) == any \/ fault

HadErrorFollowsTick(had, any) == any

\* if any_error { had_error = true; }
record_had_error(had, any) == had \/ any

\* the end of `for device in keyboards.iter_mut()` for the device at position i:
\* the next device, or `if any_error { had_error = true }` and the 10 ms sleep
AdvanceStopsOnError(i, err) ==
    IF i < Len(keyboards) /\ ~err
    THEN /\ wpc' = "poll"
         /\ devIdx' = i + 1
         /\ any_error' = err
         /\ had_error' = had_error
         /\ faulted_for' = faulted_for
    ELSE /\ wpc' = "head"
         /\ devIdx' = 1
         /\ any_error' = FALSE
         /\ had_error' = record_had_error(had_error, err)
         /\ faulted_for' = IF ~had_error /\ err THEN 0 ELSE faulted_for

Advance(i, err) ==
    IF i < Len(keyboards)
    THEN /\ wpc' = "poll"
         /\ devIdx' = i + 1
         /\ any_error' = err
         /\ had_error' = had_error
         /\ faulted_for' = faulted_for
    ELSE /\ wpc' = "head"
         /\ devIdx' = 1
         /\ any_error' = FALSE
         /\ had_error' = record_had_error(had_error, err)
         /\ faulted_for' = IF ~had_error /\ err THEN 0 ELSE faulted_for

\* the head of the loop: the flag is read; then either the thread ends, or a due
\* rescan calls find_keyboards, or the devices are polled
LoopHead ==
    /\ wpc = "head"
    /\ IF ~loop_cond(running)
       THEN /\ wpc' = "done"
            /\ keyboards' = <<>>
            /\ senders' = 0
            /\ UNCHANGED <<new_keyboards, elapsed>>
       ELSE IF rescan_due(had_error, elapsed)
            THEN IF find_keyboards_ok(present)
                 THEN \E o \in Orders(present) :
                         /\ new_keyboards' = OpenAll(o, gen + 1)
                         /\ wpc' = "opened"
                         /\ UNCHANGED <<keyboards, elapsed, senders>>
                 ELSE /\ elapsed' = last_rescan_now(elapsed)
                      /\ wpc' = "poll"
                      /\ UNCHANGED <<keyboards, new_keyboards, senders>>
            ELSE /\ wpc' = "poll"
                 /\ UNCHANGED <<keyboards, new_keyboards, elapsed, senders>>
    /\ UNCHANGED <<backend, hotkeys, setup, hist, faulted_for,
                   phase, running, handle, nstops, chan,
                   current_mods, devIdx, batch, any_error, had_error, present, gen,
                   nkeys, nfaults, last, scen>>

ClearSkipped(kbs) == kbs

\* keyboards.clear(): the old handles are dropped (closed)
keyboards_clear(kbs) == <<>>

\* after the 100 ms sleep: set_nonblocking on the new devices; on success they are
\* drained and the old devices are cleared; on failure the new devices are
\* dropped and last_rescan = Instant::now()
Install(nonblocking_ok) ==
    /\ wpc = "opened"
    /\ IF nonblocking_ok
       THEN /\ new_keyboards' = drain_events(new_keyboards)
            /\ keyboards' = keyboards_clear(keyboards)
            /\ wpc' = "cleared"
            /\ hist' = [hist EXCEPT !.drained = @ \cup Unread(new_keyboards)]
            /\ UNCHANGED elapsed
       ELSE /\ setup.faulty
            /\ new_keyboards' = <<>>
            /\ elapsed' = last_rescan_now(elapsed)
            /\ wpc' = "poll"
            /\ UNCHANGED <<keyboards, hist>>
    /\ UNCHANGED <<backend, hotkeys, setup, senders, faulted_for, phase, running,
                   handle, nstops, chan, current_mods, devIdx, batch, any_error,
                   had_error, present, gen, nkeys, nfaults, last, scen>>

\* keyboards = new_keyboards; the modifiers are reset and had_error cleared;
\* last_rescan = Instant::now()
Replace ==
    /\ wpc = "cleared"
    /\ keyboards' = new_keyboards
    /\ new_keyboards' = <<>>
    /\ current_mods' = rescan_mods(current_mods)
    /\ had_error' = FALSE
    /\ gen' = gen + 1
    /\ scen' = ScenarioOff
    /\ faulted_for' = 0
    /\ elapsed' = last_rescan_now(elapsed)
    /\ wpc' = "poll"
    /\ hist' = [hist EXCEPT !.mod_dev = [shift |-> 0, ctrl |-> 0, alt |-> 0]]
    /\ UNCHANGED <<backend, hotkeys, setup, senders, phase, running, handle, nstops,
                   chan, devIdx, batch, any_error, present, nkeys, nfaults, last>>

\* what device.fetch_events() returns: a gone keyboard fails the read with ENODEV,
\* an empty queue is EAGAIN, otherwise everything pending is returned
fetch_events(device) ==
    IF ~device.ok THEN "ENODEV" ELSE IF device.q = <<>> THEN "EAGAIN" ELSE "Ok"

AnyErrIsFault(res) == res # "Ok"

\* e.raw_os_error() != Some(libc::EAGAIN) && ... != Some(libc::EWOULDBLOCK)
\* (EWOULDBLOCK is EAGAIN on Linux)
is_read_fault(res) == res \notin {"Ok", "EAGAIN"}

\* match device.fetch_events(): the events are taken to be handled, or the error
\* is classified. The read of a keyboard that is there can fail once (EIO) and
\* succeed the next time.
Fetch(eio) ==
    /\ wpc = "poll"
    /\ IF eio
       THEN /\ setup.faulty
            /\ nfaults < MaxFaults
            /\ keyboards[devIdx].ok
            /\ nfaults' = nfaults + 1
       ELSE UNCHANGED nfaults
    /\ LET device == keyboards[devIdx]
           res == IF eio THEN "EIO" ELSE fetch_events(device)
       IN  IF res # "Ok"
           THEN /\ Advance(devIdx, record_any_error(any_error, is_read_fault(res)))
                /\ UNCHANGED <<keyboards, batch>>
           ELSE /\ batch' = device.q
                /\ keyboards' = [keyboards EXCEPT ![devIdx].q = <<>>]
                /\ wpc' = "events"
                /\ UNCHANGED <<devIdx, any_error, had_error, faulted_for>>
    /\ UNCHANGED <<backend, hotkeys, setup, hist, senders,
                   phase, running, handle, nstops, chan,
                   current_mods, new_keyboards, elapsed, present, gen, nkeys,
                   last, scen>>

\* the body of `for event in events` for one key event
HandleEvent ==
    /\ wpc = "events"
    /\ LET event == Head(batch)
           pressed == is_pressed(event.value)
           released == is_released(event.value)
           mods == linux_track(current_mods, event.key, pressed, released)
           sent == linux_emit(BackendHotkeys("linux", hotkeys), event.key,
                              pressed, released, mods)
       IN  /\ current_mods' = mods
           /\ chan' = Send(chan, sent,
                            Transition(event.seq, keyboards[devIdx].dev, event.unread))
           /\ last' = [key |-> event.key, value |-> event.value, mods |-> mods,
                       sent |-> sent]
           /\ scen' = IF scen.pos >= 0
                      THEN ScenarioStep(scen, event.key, event.value, sent)
                      ELSE scen
           /\ hist' = HistHandle(hist, keyboards[devIdx].dev, event.key, event.value,
                                 sent)
    /\ batch' = Tail(batch)
    /\ IF Tail(batch) = <<>>
       THEN Advance(devIdx, any_error)
       ELSE UNCHANGED <<wpc, devIdx, any_error, had_error, faulted_for>>
    /\ UNCHANGED <<backend, hotkeys, setup, senders, phase, running, handle, nstops,
                   keyboards, new_keyboards, elapsed, present, gen, nkeys, nfaults>>

LinuxWorker ==
    \/ LoopHead
    \/ \E ok \in BOOLEAN : Install(ok)
    \/ Replace
    \/ \E eio \in BOOLEAN : Fetch(eio)
    \/ HandleEvent

(***************************************************************************)
(* macos.rs: the worker thread of start_keyboard_listener.                  *)
(***************************************************************************)
ListenErrKeepsFlag(r) == r

\* running.store(false, Ordering::SeqCst) after listen returned Err
listen_err_store(r) == FALSE

\* listen(callback): the hook is registered and the thread stays in listen, or
\* listen returns Err and the thread stores false in the flag and ends
HookListen(registered) ==
    /\ wpc = "spawned"
    /\ IF registered
       THEN /\ wpc' = "listening"
            /\ UNCHANGED <<running, nfaults, senders>>
       ELSE /\ setup.faulty
            /\ nfaults < MaxFaults
            /\ nfaults' = nfaults + 1
            /\ wpc' = "done"
            /\ running' = listen_err_store(running)
            /\ senders' \in {0, senders}
    /\ UNCHANGED <<backend, hotkeys, setup, hist, faulted_for, phase, handle, nstops, chan,
                   current_mods, keyboards, new_keyboards, devIdx, batch, any_error,
                   had_error, elapsed, present, gen, nkeys, last, scen>>

\* the callback, called by the OS with one key event
HookCallback(key, value) ==
    /\ wpc = "listening"
    /\ nkeys < setup.transitions
    /\ nkeys' = nkeys + 1
    /\ LET table == BackendHotkeys("macos", hotkeys)
           mods == IF value = 1 THEN macos_track_press(current_mods, key)
                                ELSE macos_track_release(current_mods, key)
           sent == IF value = 1 THEN macos_emit_press(table, key, mods)
                                ELSE macos_emit_release(table, key, mods)
       IN  /\ current_mods' = mods
           /\ chan' = Send(chan, sent, Transition(nkeys + 1, 0, {}))
           /\ last' = [key |-> key, value |-> value, mods |-> mods, sent |-> sent]
    /\ UNCHANGED <<backend, hotkeys, setup, hist, senders, faulted_for,
                   phase, running, handle, nstops, wpc,
                   keyboards, new_keyboards, devIdx, batch, any_error, had_error,
                   elapsed, present, gen, nfaults, scen>>

HookWorker ==
    \/ \E ok \in BOOLEAN : HookListen(ok)
    \/ \E k \in setup.keys, v \in setup.values : HookCallback(k, v)

(***************************************************************************)
(* The environment of the raw-device worker: keyboards and time.            *)
(***************************************************************************)
\* The worker sleeps 10 ms at the end of every iteration and 100 ms after
\* find_keyboards. A fault, a new keyboard or the passing of time while it runs
\* between two sleeps reaches it as if during the sleep before (a device not yet
\* polled) or the sleep after (a device already polled), so those happen there.
Asleep == wpc \in {"head", "opened"}

\* The worker has polled a device in this iteration and is about to poll the next:
\* a key transition here is read in this iteration or in the next one, depending
\* on its device. (Before the first device is polled it is as during the sleep.)
BetweenDevices == wpc = "poll" /\ devIdx > 1

\* a key of keyboard d goes down, repeats or goes up
KeyTransition(d, key, value) ==
    /\ backend = "linux"
    /\ Asleep \/ BetweenDevices
    /\ d \in present
    /\ nkeys < setup.transitions
    /\ Pending(keyboards) < MaxPending
    /\ Pending(new_keyboards) < MaxPending
    /\ HasOpen(keyboards, d) \/ HasOpen(new_keyboards, d)
    /\ nkeys' = nkeys + 1
    /\ LET e == [key |-> key, value |-> value, seq |-> nkeys + 1,
                 unread |-> Unread(keyboards) \cup Unread(new_keyboards)]
       IN  /\ keyboards' = Deliver(keyboards, d, e)
           /\ new_keyboards' = Deliver(new_keyboards, d, e)
    /\ hist' = HistTransition(hist, d, key, value)
    /\ UNCHANGED <<backend, hotkeys, setup, senders, faulted_for,
                   phase, running, handle, nstops, chan,
                   wpc, current_mods, devIdx, batch, any_error, had_error, elapsed,
                   present, gen, nfaults, last, scen>>

\* keyboard d is disconnected
Unplug(d) ==
    /\ backend = "linux"
    /\ Asleep \/ phase = "builder"
    /\ d \in present
    /\ setup.faulty
    /\ nfaults < MaxFaults
    /\ nfaults' = nfaults + 1
    /\ present' = present \ {d}
    /\ keyboards' = Break(keyboards, d)
    /\ new_keyboards' = Break(new_keyboards, d)
    /\ UNCHANGED <<backend, hotkeys, setup, hist, senders, faulted_for,
                   phase, running, handle, nstops, chan,
                   wpc, current_mods, devIdx, batch, any_error, had_error, elapsed,
                   gen, nkeys, last, scen>>

\* keyboard d is connected again, as a new device node
Plug(d) ==
    /\ backend = "linux"
    /\ Asleep
    /\ d \notin present
    /\ present' = present \cup {d}
    /\ UNCHANGED <<backend, hotkeys, setup, hist, senders, faulted_for,
                   phase, running, handle, nstops, chan,
                   wpc, current_mods, keyboards, new_keyboards, devIdx, batch,
                   any_error, had_error, elapsed, gen, nkeys, nfaults, last, scen>>

\* time passes: RESCAN_INTERVAL seconds on the worker's clock
Tick ==
    /\ backend = "linux"
    /\ Asleep
    /\ setup.faulty
    /\ elapsed < RESCAN_INTERVAL \/ (had_error /\ faulted_for < RESCAN_INTERVAL)
    /\ elapsed' = RESCAN_INTERVAL
    /\ faulted_for' = IF had_error THEN RESCAN_INTERVAL ELSE faulted_for
    /\ UNCHANGED <<backend, hotkeys, setup, hist, senders,
                   phase, running, handle, nstops, chan,
                   wpc, current_mods, keyboards, new_keyboards, devIdx, batch,
                   any_error, had_error, present, gen, nkeys, nfaults, last, scen>>

Environment ==
    \/ \E d \in setup.devices, k \in setup.keys, v \in setup.values :
            KeyTransition(d, k, v)
    \/ \E d \in setup.devices : Unplug(d)
    \/ \E d \in setup.devices : Plug(d)
    \/ Tick

Listener == Build \/ (\E ok \in BOOLEAN : Start(ok)) \/ Stop \/ Drop \/ Recv

Next == Listener \/ LinuxWorker \/ HookWorker \/ Environment

Spec == Init /\ [][Next]_vars

\* the runs in which the program stops or drops the handle, with a worker thread
\* that is scheduled again and again
InitStops == Init /\ setup.stops

FairSpec == InitStops /\ [][Next]_vars /\ WF_vars(LinuxWorker)

(***************************************************************************)
(* The properties.                                                          *)
(***************************************************************************)
\* the table entry at position i (1-based) has the key of the transition handled last
KeyOf(i) == BackendKey(backend, hotkeys[i].key) = last.key

\* the transition handled last sent e
SentLast(e) == \E j \in 1..Len(last.sent) : last.sent[j] = e

\* C1: in both backends a key-down of hotkey i's key sends Pressed(i) when the live
\* modifier state equals the hotkey's modifiers in all three bits, and sends no
\* event with index i when it differs in any bit.
C1_PressExactMatch ==
    last.value = 1 =>
        \A i \in 1..Len(hotkeys) :
            KeyOf(i) =>
                IF /\ last.mods.shift = hotkeys[i].modifiers.shift
                   /\ last.mods.ctrl = hotkeys[i].modifiers.ctrl
                   /\ last.mods.alt = hotkeys[i].modifiers.alt
                THEN SentLast(Pressed(i - 1))
                ELSE ~SentLast(Pressed(i - 1)) /\ ~SentLast(Released(i - 1))

\* a press with shift, ctrl and alt held: Shift+Ctrl+Alt+F9 (index 1) is sent and
\* Ctrl+Alt+F9 (index 0), whose modifiers are a subset, is not
C1_Witness ==
    /\ hotkeys = TableCtrlAlt
    /\ last.value = 1
    /\ last.mods = Modifiers(TRUE, TRUE, TRUE)
    /\ last.sent = <<Pressed(1)>>

\* C2: on the raw-device backend a key-up of hotkey i's key sends Released(i) only
\* if the live modifier state equals hotkey i's modifiers; with hotkeys
\* [Shift+F8, F8] and the transitions shift-down, F8-down, F8-up, shift-up the
\* events sent are exactly Pressed(0), Released(0).
C2_LinuxReleaseStrict ==
    /\ (backend = "linux" /\ last.value = 0) =>
            \A i \in 1..Len(hotkeys) :
                SentLast(Released(i - 1)) => KeyOf(i) /\ last.mods = hotkeys[i].modifiers
    /\ scen.pos = Len(Scenario) => scen.sent = <<Pressed(0), Released(0)>>

C2_Witness ==
    /\ backend = "linux"
    /\ hotkeys = TableShiftF8
    /\ scen.pos = Len(Scenario)
    /\ last = [key |-> "KEY_LEFTSHIFT", value |-> 0, mods |-> ModifiersDefault,
               sent |-> <<>>]

\* C3: on the hook backend a key-release of key K sends Released(i) for every entry
\* i whose key is K, whatever the live modifier state, while a key-press sends
\* Pressed(i) only for the entries whose modifiers match exactly.
C3_HookReleaseUnconditional ==
    backend = "macos" =>
        \A i \in 1..Len(hotkeys) :
            /\ last.value = 0 => (SentLast(Released(i - 1)) <=> KeyOf(i))
            /\ last.value = 1 =>
                    (SentLast(Pressed(i - 1)) <=>
                        KeyOf(i) /\ last.mods = hotkeys[i].modifiers)

\* F8 goes up while shift is held: Released is sent for Shift+F8 and for F8
C3_Witness ==
    /\ backend = "macos"
    /\ hotkeys = TableShiftF8
    /\ last.value = 0
    /\ last.mods.shift
    /\ last.sent = <<Released(0), Released(1)>>

\* C4: every event sent carries an index smaller than the number of registered
\* hotkeys, the registration position of a hotkey whose key is the key of the
\* transition that caused it; with hotkeys [F8, F9, F10], transitions of F9 send
\* only events with index 1.
C4_IndexIsRegistrationPosition ==
    /\ \A j \in 1..Len(chan) :
            chan[j].event.index \in 0..(Len(hotkeys) - 1)
    /\ \A j \in 1..Len(last.sent) :
            /\ last.sent[j].index \in 0..(Len(hotkeys) - 1)
            /\ KeyOf(last.sent[j].index + 1)
    /\ (hotkeys = TableABC /\ last.key = BackendKey(backend, "F9")) =>
            \A j \in 1..Len(last.sent) : last.sent[j].index = 1

C4_Witness ==
    /\ hotkeys = TableABC
    /\ last.key = BackendKey(backend, "F9")
    /\ last.sent = <<Released(1)>>
    /\ Len(chan) = 2
    /\ Events(chan) = <<Pressed(1), Released(1)>>

\* C5 as claimed: the events in the channel are in the order of the physical
\* transitions that caused them, also for transitions that arrive on different
\* devices within one poll tick.
C5_PhysicalOrder ==
    \A i, j \in 1..Len(chan) : i < j => chan[i].seq <= chan[j].seq

\* C5, amended: the events are in the order of their physical transitions, except
\* for two transitions on different devices of which the later one happened while
\* the earlier one was still unread on its device (within one poll period): those
\* are delivered in the order the worker reads the devices.
C5_OrderUpToUnreadOnOtherDevice ==
    \A i, j \in 1..Len(chan) :
        (i < j /\ chan[i].seq > chan[j].seq) =>
            chan[i].dev # chan[j].dev /\ chan[j].seq \in chan[i].unread

\* two transitions of one keyboard read by one poll, then one of another keyboard
\* after those were read: all in the channel in their physical order
C5_Witness ==
    /\ backend = "linux"
    /\ Len(chan) = 3
    /\ chan[1].seq < chan[2].seq /\ chan[2].seq < chan[3].seq
    /\ chan[1].dev = chan[2].dev
    /\ chan[3].dev # chan[2].dev
    /\ chan[1].seq \in chan[2].unread
    /\ chan[3].unread = {}

\* the worker handles the event at the head of the batch
HandlesEvent == wpc = "events" /\ batch # <<>> /\ batch' = Tail(batch)

\* C6: on the raw-device backend an autorepeat (a value other than 1 and 0) of any
\* key sends no event and leaves the modifier state as it was.
C6_AutorepeatIgnored ==
    /\ [](last.value \notin {-1, 0, 1} => last.sent = <<>>)
    /\ [][(HandlesEvent /\ Head(batch).value \notin {0, 1}) =>
            (chan' = chan /\ current_mods' = current_mods)]_vars

\* an autorepeat of F8 read while shift is held, with Shift+F8 registered
C6_Witness ==
    /\ last.key = "KEY_F8"
    /\ last.value = 2
    /\ last.mods = Modifiers(TRUE, FALSE, FALSE)
    /\ \E i \in 1..Len(hotkeys) :
            hotkeys[i] = with_shift(HotkeyNew("F8"))

ModifierKeys(f) ==
    CASE f = "shift" -> {"KEY_LEFTSHIFT", "KEY_RIGHTSHIFT"}
      [] f = "ctrl" -> {"KEY_LEFTCTRL", "KEY_RIGHTCTRL"}
      [] f = "alt" -> {"KEY_LEFTALT", "KEY_RIGHTALT"}

\* C7: on the raw-device backend a successful rescan leaves the modifier state
\* all-false, and a modifier flag becomes true only when a key-down of that
\* modifier is read: a modifier held since before the fault, autorepeating or
\* not, is not active after the rescan.
C7_RescanResetsModifiers ==
    [][backend = "linux" =>
        /\ gen' # gen => current_mods' = ModifiersDefault
        /\ \A f \in {"shift", "ctrl", "alt"} :
                (~current_mods[f] /\ current_mods'[f]) =>
                    /\ HandlesEvent
                    /\ Head(batch).value = 1
                    /\ Head(batch).key \in ModifierKeys(f)]_vars

\* after a rescan, shift, held since before the fault, autorepeats and is not active
C7_Witness ==
    /\ gen = 1
    /\ last.key = "KEY_LEFTSHIFT"
    /\ last.value = 2
    /\ wpc = "head"
    /\ current_mods = ModifiersDefault

\* C8: on the raw-device backend, once stop() or the drop has cleared the flag, no
\* loop iteration starts any more (the worker leaves the head of the loop only to
\* end), so events are sent at most by the iteration in progress, a worker that
\* has ended sends nothing, and the worker, scheduled fairly, ends.
C8_LinuxWorkerStops ==
    /\ [][backend = "linux" =>
            /\ (wpc = "head" /\ wpc' # "head" /\ ~running) => wpc' = "done"
            /\ wpc = "done" => (wpc' = "done" /\ Len(chan') <= Len(chan))]_vars
    /\ (backend = "linux" /\ phase = "started" /\ ~running) ~> (wpc = "done")

\* the worker has ended after stop(), with the event of its last iteration unread
C8_Witness ==
    /\ backend = "linux"
    /\ wpc = "done"
    /\ handle = "live"
    /\ nstops = 1
    /\ Len(chan) = 1

\* C9 as claimed: on the hook backend, once stop() or the drop has cleared the flag,
\* a key transition sends no event and the worker thread ends.
C9_HookStopsAfterFlagCleared ==
    [][(backend = "macos" /\ wpc = "listening" /\ ~running /\ nkeys' # nkeys) =>
            (chan' = chan /\ wpc' = "done")]_vars

\* C10: after the first stop() the flag is false and is_running() returns false; a
\* further stop() and the drop leave the flag false and change nothing else; after
\* the start nothing sets the flag to true.
C10_ShutdownIdempotent ==
    /\ []((nstops >= 1 \/ handle = "dropped") => ~is_running)
    /\ [][(phase = "started" /\ ~running) => ~running']_vars
    /\ [][(~running /\ nstops' # nstops) =>
            /\ ~running'
            /\ UNCHANGED <<phase, handle, chan, wpc, current_mods, keyboards,
                           new_keyboards, batch, had_error, last>>]_vars
    /\ [][(~running /\ handle = "live" /\ handle' = "dropped") =>
            /\ ~running'
            /\ UNCHANGED <<phase, nstops, wpc, current_mods, keyboards,
                           new_keyboards, batch, had_error, last>>]_vars

\* stop() twice, then the drop
C10_Witness ==
    /\ nstops = 2
    /\ handle = "dropped"
    /\ ~running

\* C11 as claimed: every failure of construction (no keyboard found, non-blocking
\* mode refused, hook registration denied) is returned as an error of build() or
\* start(): then no handle exists and no worker thread has been started; on the
\* hook backend a failed registration does not come with a start() that returned
\* Ok. (On the hook backend the worker has ended only after listen returned Err.)
C11_ConstructionFailureReturned ==
    /\ phase = "failed" => (handle = "none" /\ wpc = "none")
    /\ (backend = "macos" /\ wpc = "done") => phase = "failed"

\* C12: on the hook backend, once hook registration has failed, the flag is false,
\* is_running() returns false, and the listener has sent no event and sends none.
C12_HookFailureClearsFlag ==
    /\ []((backend = "macos" /\ wpc = "done") =>
            (~is_running /\ nkeys = 0 /\ chan = <<>> /\ last = NoLast))
    /\ [][(backend = "macos" /\ wpc = "done") => (wpc' = "done" /\ chan' = chan)]_vars

\* start() returned a live handle, then the registration of the hook failed
C12_Witness ==
    /\ backend = "macos"
    /\ phase = "started"
    /\ handle = "live"
    /\ nstops = 0
    /\ wpc = "done"
    /\ ~running

\* C13: the raw-device worker ends only at the head of its loop with the flag
\* false; the flag becomes false only by stop() or the drop; so while neither has
\* happened, through read faults, failed rescans and failed sends, the worker is
\* alive and is_running() is true. After the drop (sends fail) the worker still
\* finishes its iteration.
C13_OnlyStopEndsWorker ==
    /\ [](( backend = "linux" /\ phase = "started" /\ nstops = 0 /\ handle = "live") =>
            (is_running /\ wpc # "done"))
    /\ [][backend = "linux" =>
            /\ (wpc # "done" /\ wpc' = "done") => (wpc = "head" /\ ~running)
            /\ (running /\ ~running') => (nstops' # nstops \/ handle' = "dropped")]_vars

\* the only keyboard is gone, the read has failed and so has the rescan; the worker
\* polls on and the flag is true
C13_Witness ==
    /\ backend = "linux"
    /\ present = {}
    /\ had_error
    /\ elapsed = 0
    /\ wpc = "poll"
    /\ is_running

\* the table entry at position i (1-based) matches the transition handled last
Matches(i) ==
    /\ KeyOf(i)
    /\ last.value \in {0, 1}
    /\ hotkeys[i].modifiers = last.mods \/ (backend = "macos" /\ last.value = 0)

\* C14: one key transition sends one event for every table entry that matches it
\* (duplicate entries included) and for no other, the events in ascending index
\* order.
C14_EveryMatchingEntry ==
    /\ \A i \in 1..Len(hotkeys) :
            Matches(i) =>
                \E j \in 1..Len(last.sent) :
                    last.sent[j] = (IF last.value = 1 THEN Pressed(i - 1)
                                                      ELSE Released(i - 1))
    /\ \A j \in 1..Len(last.sent) :
            /\ last.sent[j].index + 1 \in 1..Len(hotkeys)
            /\ Matches(last.sent[j].index + 1)
    /\ \A j, k \in 1..Len(last.sent) :
            j < k => last.sent[j].index < last.sent[k].index

\* F8 goes down with no modifier held and F8 registered at positions 0 and 2
C14_Witness ==
    /\ backend = "linux"
    /\ hotkeys = TableDup
    /\ last.key = "KEY_F8"
    /\ last.sent = <<Pressed(0), Pressed(2)>>
    /\ Len(chan) >= 2
    /\ chan[Len(chan) - 1].event = Pressed(0)
    /\ chan[Len(chan)].event = Pressed(2)

\* the left and the right key of modifier f, in either backend's key codes
ModifierVariants(f) ==
    CASE f = "shift" -> {"KEY_LEFTSHIFT", "KEY_RIGHTSHIFT",
                         "rdev::ShiftLeft", "rdev::ShiftRight"}
      [] f = "ctrl" -> {"KEY_LEFTCTRL", "KEY_RIGHTCTRL",
                        "rdev::ControlLeft", "rdev::ControlRight"}
      [] f = "alt" -> {"KEY_LEFTALT", "KEY_RIGHTALT", "rdev::Alt", "rdev::AltGr"}

\* C15 as claimed: in both backends a key-down of the left or the right key of a
\* modifier leaves its flag true and a key-up of either leaves it false.
C15_LeftRightAliased ==
    \A f \in {"shift", "ctrl", "alt"} :
        (last.key \in ModifierVariants(f) /\ last.value \in {0, 1}) =>
            last.mods[f] = (last.value = 1)

\* the worker handles one key transition (either backend)
HandlesTransition == HandlesEvent \/ (backend = "macos" /\ nkeys' # nkeys)

\* C16: handling one key transition changes at most one of the three flags, and
\* none when the key is not a modifier key.
C16_AtMostOneFlag ==
    [][HandlesTransition =>
        /\ Cardinality({ f \in {"shift", "ctrl", "alt"} :
                            current_mods'[f] # current_mods[f] }) <= 1
        /\ (\A f \in {"shift", "ctrl", "alt"} : last'.key \notin ModifierVariants(f))
                => current_mods' = current_mods]_vars

\* F8, a hotkey key, has gone down while shift is held: shift is still held
C16_Witness ==
    /\ last.key \in {"KEY_F8", "rdev::F8"}
    /\ last.value = 1
    /\ last.mods = Modifiers(TRUE, FALSE, FALSE)
    /\ current_mods = last.mods
    /\ last.sent # <<>>

\* C17: on an empty channel try_recv reports Empty and recv_timeout Timeout while
\* the worker has not ended (on the raw-device backend exactly then); Disconnected
\* is reported only after the worker has ended and every event it sent has been
\* received; the events are received once each, in the order they were sent.
C17_ReceiveOutcomes ==
    /\ [](handle = "live" =>
            /\ (chan = <<>> /\ wpc # "done") =>
                    /\ try_recv(chan, senders) = "Empty"
                    /\ recv_timeout(chan, senders) = "Timeout"
            /\ (backend = "linux" /\ wpc = "done" /\ chan = <<>>) =>
                    /\ try_recv(chan, senders) = "Disconnected"
                    /\ recv_timeout(chan, senders) = "Disconnected"
            /\ try_recv(chan, senders) = "Disconnected" =>
                    (wpc = "done" /\ chan = <<>>)
            /\ recv_timeout(chan, senders) = "Disconnected" =>
                    (wpc = "done" /\ chan = <<>>)
            /\ chan # <<>> => try_recv(chan, senders) = "Ok")
    /\ [][(handle = "live" /\ handle' = "live" /\ chan' # chan) =>
            \/ (chan # <<>> /\ chan' = Tail(chan))
            \/ (Len(chan') > Len(chan) /\ SubSeq(chan', 1, Len(chan)) = chan)]_vars

\* the raw-device worker has ended, the events it sent have been received, and the
\* next receive reports Disconnected
C17_Witness ==
    /\ backend = "linux"
    /\ handle = "live"
    /\ wpc = "done"
    /\ last.sent # <<>>
    /\ chan = <<>>
    /\ try_recv(chan, senders) = "Disconnected"

\* the worker attempts a rescan: at the head of the loop it calls find_keyboards,
\* which opens the keyboards found or fails
RescanAttempt ==
    /\ backend = "linux"
    /\ wpc = "head"
    /\ wpc' = "opened" \/ (wpc' = "poll" /\ elapsed # 0 /\ elapsed' = 0)

\* C18 as claimed: a rescan is attempted only when a full cooldown interval has
\* passed since the worker became faulted.
C18_CooldownSinceFault ==
    [][RescanAttempt => faulted_for >= RESCAN_INTERVAL]_vars

\* C18, amended: a rescan is attempted only while the worker is faulted and only
\* when a full cooldown interval has passed since the previous rescan attempt, or
\* since the worker started if there was none.
C18_CooldownSinceLastRescan ==
    /\ [][RescanAttempt => (had_error /\ elapsed >= RESCAN_INTERVAL)]_vars
    /\ [][(wpc \in {"head", "opened", "cleared"} /\ wpc' = "poll" /\ had_error
                /\ elapsed >= RESCAN_INTERVAL)
            => elapsed' = 0]_vars
    /\ [][elapsed' > elapsed => (wpc' = wpc /\ UNCHANGED <<keyboards, had_error>>)]_vars

\* a keyboard failed more than a cooldown interval after the worker started, and
\* the rescan follows in the next iteration
C18_Witness ==
    /\ backend = "linux"
    /\ wpc = "opened"
    /\ had_error
    /\ gen = 0
    /\ elapsed = RESCAN_INTERVAL
    /\ faulted_for = 0

\* a rescan attempt fails: find_keyboards finds no keyboard, or set_nonblocking
\* fails on the keyboards found
RescanFails ==
    \/ RescanAttempt /\ wpc' = "poll"
    \/ backend = "linux" /\ wpc = "opened" /\ wpc' = "poll"

\* C19: a failed rescan attempt leaves the worker faulted, restarts the cooldown
\* at the time of the attempt, and leaves the owned devices and the modifier state
\* as they were.
C19_FailedRescan ==
    [][RescanFails =>
        /\ had_error /\ had_error'
        /\ elapsed' = 0
        /\ keyboards' = keyboards
        /\ current_mods' = current_mods]_vars

\* shift is held, a keyboard is gone, and set_nonblocking has failed on the
\* keyboards the rescan found
C19_Witness ==
    /\ backend = "linux"
    /\ wpc = "poll"
    /\ had_error
    /\ elapsed = 0
    /\ gen = 0
    /\ present # {}
    /\ current_mods.shift
    /\ keyboards # <<>>

\* the devices (by keyboard) of the handles kbs
DevicesOf(kbs) == { kbs[i].dev : i \in 1..Len(kbs) }

\* C20: a successful rescan first releases every handle of the old device set and
\* then installs exactly the handles find_keyboards opened, so the owned set never
\* mixes handles of two scans; the worker is healthy again.
C20_RescanReplacesDevices ==
    /\ [](\A i \in 1..Len(keyboards) : keyboards[i].gen = gen)
    /\ [](wpc = "cleared" => keyboards = <<>>)
    /\ [][(wpc = "opened" /\ wpc' = "cleared") =>
            /\ Len(new_keyboards') = Len(new_keyboards)
            /\ \A i \in 1..Len(new_keyboards) :
                    /\ new_keyboards'[i].dev = new_keyboards[i].dev
                    /\ new_keyboards'[i].gen = gen + 1]_vars
    /\ [][(wpc = "cleared" /\ wpc' # "cleared") =>
            /\ keyboards' = new_keyboards
            /\ gen' = gen + 1
            /\ ~had_error'
            /\ wpc' = "poll"]_vars

\* one of two keyboards is gone; the rescan has installed a new handle on the
\* other one and the worker is healthy
C20_Witness ==
    /\ backend = "linux"
    /\ gen = 1
    /\ ~had_error
    /\ wpc = "poll"
    /\ Cardinality(setup.devices) = 2
    /\ Len(keyboards) = 1
    /\ DevicesOf(keyboards) = present
    /\ keyboards[1].gen = 1

\* the read of the device being polled fails with an error other than would-block
ReadFaults == wpc = "poll" /\ (~keyboards[devIdx].ok \/ nfaults' # nfaults)

\* C21: a read error other than would-block is recorded in the tick (any_error) and
\* makes the worker faulted (had_error) when the tick ends; nothing else does: a
\* would-block or a read of events records no error, and a healthy worker is
\* faulted at the end of a tick only if a read of that tick failed.
C21_FaultedByReadErrorOnly ==
    [][backend = "linux" =>
        /\ (ReadFaults /\ wpc' # wpc) => (had_error' \/ any_error')
        /\ (ReadFaults /\ devIdx' # devIdx) => (had_error' \/ any_error')
        /\ (any_error /\ wpc \in {"poll", "events"}) => (had_error' \/ any_error')
        /\ (~any_error /\ any_error') => ReadFaults
        /\ (~had_error /\ had_error') =>
                (wpc' = "head" /\ (any_error \/ ReadFaults))]_vars

\* the first of two keyboards is gone, the second one would block: the worker is
\* faulted at the end of that tick
C21_Witness ==
    /\ backend = "linux"
    /\ wpc = "head"
    /\ had_error
    /\ faulted_for = 0
    /\ Len(keyboards) = 2
    /\ ~keyboards[1].ok
    /\ keyboards[2].ok

\* C23: once faulted, the worker stays faulted until a rescan succeeds, whatever
\* the later reads return; and a faulted worker that finds the cooldown elapsed at
\* the head of its loop attempts the rescan.
C23_FaultedIsSticky ==
    /\ [][(had_error /\ ~had_error') =>
            (wpc = "cleared" /\ wpc' = "poll" /\ gen' = gen + 1
                /\ current_mods' = ModifiersDefault)]_vars
    /\ [][(backend = "linux" /\ wpc = "head" /\ wpc' \notin {"head", "done"}
                /\ had_error /\ elapsed >= RESCAN_INTERVAL)
            => RescanAttempt]_vars

\* a read failed once and the cooldown has passed; every keyboard is there and
\* readable, the last key transition has been read and sent as an event, and the
\* worker is still faulted
C23_Witness ==
    /\ backend = "linux"
    /\ had_error
    /\ gen = 0
    /\ wpc = "head"
    /\ present = setup.devices
    /\ \A i \in 1..Len(keyboards) : keyboards[i].ok
    /\ chan # <<>>
    /\ chan[Len(chan)].seq = nkeys
    /\ chan[Len(chan)].unread = {}
    /\ faulted_for = RESCAN_INTERVAL

\* C22: on the raw-device backend, as long as every physical key has alternated
\* down/up, the events sent for an index alternate Pressed, Released starting with
\* Pressed: a Pressed(i) is sent only when the last event sent for i was not a
\* Pressed, and a Released(i) only when it was. (Stated for one keyboard, where
\* the worker reads the transitions in the order they happened.)
C22_StrictAlternation ==
    [][(backend = "linux" /\ Cardinality(setup.devices) = 1 /\ HandlesEvent
            /\ hist.strict) =>
        \A i \in 1..Len(hotkeys) :
            /\ (\E j \in 1..Len(last'.sent) : last'.sent[j] = Pressed(i - 1))
                    => (i - 1) \notin hist.open
            /\ (\E j \in 1..Len(last'.sent) : last'.sent[j] = Released(i - 1))
                    => (i - 1) \in hist.open]_vars

\* C24: a fault on record, of this tick or of an earlier one, changes nothing in
\* the polling: every tick starts at the first device and ends after the last one,
\* one device after the other; and a transition handled while a fault is on record
\* sets or clears its modifier flag, sends Pressed(i) or Released(i) for exactly the
\* entries of its key whose modifiers equal the modifier state, and these events
\* are queued on the channel.
C24_FaultedStillPolls ==
    [][backend = "linux" =>
        /\ (wpc \in {"poll", "events"} /\ wpc' = "head") => devIdx = Len(keyboards)
        /\ (wpc \in {"poll", "events"} /\ wpc' = "poll" /\ devIdx' # devIdx)
                => devIdx' = devIdx + 1
        /\ (wpc = "events" /\ wpc' = "poll") => devIdx' = devIdx + 1
        /\ (wpc \notin {"poll", "events"} /\ wpc' = "poll") => devIdx' = 1
        /\ (HandlesEvent /\ (had_error \/ any_error)) =>
              LET e == Head(batch)
              IN  /\ \A f \in {"shift", "ctrl", "alt"} :
                        current_mods'[f] =
                            IF e.key \in ModifierVariants(f) /\ e.value \in {0, 1}
                            THEN e.value = 1
                            ELSE current_mods[f]
                  /\ \A i \in 1..Len(hotkeys) :
                        LET hit == /\ BackendKey("linux", hotkeys[i].key) = e.key
                                   /\ hotkeys[i].modifiers = current_mods'
                        IN  /\ (\E j \in 1..Len(last'.sent) :
                                    last'.sent[j] = Pressed(i - 1)) <=> (hit /\ e.value = 1)
                            /\ (\E j \in 1..Len(last'.sent) :
                                    last'.sent[j] = Released(i - 1)) <=> (hit /\ e.value = 0)
                  /\ handle # "dropped" => Events(chan') = Events(chan) \o last'.sent]_vars

\* the first of two keyboards has failed to be read in this tick; of two
\* transitions read together from the second one, the first has been handled and
\* its event is the last of the channel
C24_Witness ==
    /\ backend = "linux"
    /\ wpc = "events"
    /\ any_error
    /\ devIdx = 2
    /\ ~keyboards[1].ok
    /\ batch # <<>>
    /\ chan # <<>>
    /\ chan[Len(chan)].dev = keyboards[2].dev
    /\ chan[Len(chan)].seq \in Head(batch).unread

\* C25: the raw-device worker has one modifier state for all its devices: a flag is
\* active exactly when the last key-down or key-up of that modifier read since the
\* devices were installed, from whatever device, was a key-down; and a key-down of
\* a hotkey's key, from whatever device, sends Pressed(i) exactly when the
\* hotkey's modifiers are the modifiers so activated.
C25_ModifiersSharedByDevices ==
    /\ [](backend = "linux" =>
            \A f \in {"shift", "ctrl", "alt"} : current_mods[f] = (hist.mod_dev[f] # 0))
    /\ [][(HandlesEvent /\ Head(batch).value = 1) =>
            \A i \in 1..Len(hotkeys) :
                (\E j \in 1..Len(last'.sent) : last'.sent[j] = Pressed(i - 1))
                    <=> /\ BackendKey("linux", hotkeys[i].key) = Head(batch).key
                        /\ \A f \in {"shift", "ctrl", "alt"} :
                                hotkeys[i].modifiers[f] = (hist'.mod_dev[f] # 0)]_vars

\* shift went down on one keyboard, then F8 on the other one: Pressed is sent for
\* Shift+F8 (index 1)
C25_Witness ==
    /\ backend = "linux"
    /\ hotkeys = TableF8
    /\ handle = "live"
    /\ last.key = "KEY_F8"
    /\ last.value = 1
    /\ last.sent = <<Pressed(1)>>
    /\ chan # <<>>
    /\ chan[Len(chan)].event = Pressed(1)
    /\ hist.mod_dev.shift \notin {0, chan[Len(chan)].dev}

\* C26: a successful rescan discards what is pending on the devices it has opened:
\* the drain empties their queues, sends nothing and leaves the modifier state
\* alone; no event in the channel ever comes from a discarded transition; and when
\* the new devices are installed and polling resumes at the first device, nothing
\* is pending on them and the modifier state is all-false.
C26_RescanDrainsPending ==
    /\ [](wpc = "cleared" => Pending(new_keyboards) = 0)
    /\ [](\A k \in 1..Len(chan) : chan[k].seq \notin hist.drained)
    /\ [][(wpc = "opened" /\ wpc' = "cleared") =>
            /\ chan' = chan
            /\ current_mods' = current_mods
            /\ last' = last]_vars
    /\ [][gen' # gen =>
            /\ wpc' = "poll"
            /\ devIdx' = 1
            /\ Pending(keyboards') = 0
            /\ current_mods' = ModifiersDefault]_vars

\* a key went down on a keyboard the rescan had just opened; the rescan has
\* succeeded, no key has moved since, and the first poll is about to begin
C26_Witness ==
    /\ backend = "linux"
    /\ gen = 1
    /\ wpc = "poll"
    /\ devIdx = 1
    /\ nkeys \in hist.drained
    /\ Pending(keyboards) = 0
    /\ current_mods = ModifiersDefault
====
